---- MODULE Spec2Model ----
(***************************************************************************)
(* The key-event transducer of src/key_transforms.rs: a Layout is compiled *)
(* by Mapper::for_layout into a HashedLayout, and Mapper::step /            *)
(* Mapper::release_all turn physical Pressed/Released events into synthetic *)
(* ones while updating the four sequences of State.                        *)
(*                                                                         *)
(* KeyCode is modelled as the integers 1..NumKeys with the KeyCode order   *)
(* being the integer order; the codes in Modifiers stand for the six       *)
(* hard-coded modifier codes of is_action_key, all others are action keys. *)
(***************************************************************************)
EXTENDS Integers, Sequences, FiniteSets, TLC

\* ------------------------------------------------------------------ bounds
\* the codes of KeyCode that the model distinguishes
NumKeys == 5
\* at most this many physical keys are held at once
MaxHeld == 3
\* calls are made while every key's Pressed and Released counts differ by at
\* most this much
MaxImbalance == 1
MaxToLen == 4

Keys == 1..NumKeys
\* the modifier codes of is_action_key (LEFTCTRL, LEFTSHIFT)
Modifiers == {1, 2}

\* ------------------------------------------------------------ Event, Vec
Pressed(k) == [type |-> "Pressed", key |-> k]
Released(k) == [type |-> "Released", key |-> k]

\* Vec::contains
Contains(s, k) == \E i \in 1..Len(s) : s[i] = k

\* one Pressed / Released event per key of s, in order
PressedAll(s) == [i \in 1..Len(s) |-> Pressed(s[i])]
ReleasedAll(s) == [i \in 1..Len(s) |-> Released(s[i])]

\* iter().rev()
Reverse(s) == [i \in 1..Len(s) |-> s[Len(s) + 1 - i]]

\* Vec::remove(i), 1-based
RemoveAt(s, i) == SubSeq(s, 1, i - 1) \o SubSeq(s, i + 1, Len(s))

\* -------------------------------------------------------- small predicates
\* trigger[trigger.len() - 1]: indexing an empty Vec panics
final_key_panics(trigger) == Len(trigger) = 0

final_key(trigger) == trigger[Len(trigger)]

\* is_supported looking at the final key of the trigger only
is_supported_by_final_key(trigger, pressed_keys, new_key) ==
  trigger[Len(trigger)] = new_key

is_supported(trigger, pressed_keys, new_key) ==
  \A i \in 1..Len(trigger) :
     Contains(pressed_keys, trigger[i]) \/ trigger[i] = new_key

fails_when_released(trigger, key) ==
  \E i \in 1..Len(trigger) : trigger[i] = key

is_action_key(k) == k \notin Modifiers

is_action_mapping(m) ==
  IF Len(m.to) = 0 THEN FALSE ELSE is_action_key(m.to[Len(m.to)])

is_no_repeat_mapping(no_repeat_keys, m) ==
  IF Len(m.to) = 0 THEN FALSE ELSE m.to[Len(m.to)] \in no_repeat_keys

init_state ==
  [input_pressed_keys |-> << >>,
   active_mappings    |-> << >>,
   pass_through_keys  |-> << >>,
   mapped_output_keys |-> << >>]

\* ------------------------------------------------------ layout compilation
\* the first loop of to_seq_mapping, over m.to[0 .. len-1]
RECURSIVE to_seq_loop(_, _, _, _)
to_seq_loop(to, i, working_modifiers, working_to) ==
  IF i > Len(to) - 1
  THEN [working_modifiers |-> working_modifiers, working_to |-> working_to]
  ELSE IF is_action_key(to[i])
       THEN to_seq_loop(to, i + 1, working_modifiers,
                        Append(working_to, Append(working_modifiers, to[i])))
       ELSE to_seq_loop(to, i + 1, Append(working_modifiers, to[i]), working_to)

\* to_seq_mapping with the final group left without its modifiers
to_seq_mapping_bare_final(m) ==
  IF Len(m.to) > 0
  THEN [from |-> m.from,
        to   |-> Append(to_seq_loop(m.to, 1, << >>, << >>).working_to,
                        << m.to[Len(m.to)] >>)]
  ELSE [from |-> m.from, to |-> << >>]

to_seq_mapping(m) ==
  IF Len(m.to) > 0
  THEN LET r == to_seq_loop(m.to, 1, << >>, << >>)
       IN [from |-> m.from,
           to   |-> Append(r.working_to,
                           Append(r.working_modifiers, m.to[Len(m.to)]))]
  ELSE [from |-> m.from, to |-> << >>]

\* the element-wise loop of trigger_priority, i from len-1 down to 0; the
\* second comparison is t1[i] > t1[i] in the source
RECURSIVE trigger_priority_loop(_, _, _)
trigger_priority_loop(t1, t2, i) ==
  IF i < 1 THEN "Equal"
  ELSE IF t1[i] < t2[i] THEN "Less"
  ELSE IF t1[i] > t1[i] THEN "Greater"
  ELSE trigger_priority_loop(t1, t2, i - 1)

trigger_priority(t1, t2) ==
  IF Len(t1) > Len(t2) THEN "Less"
  ELSE IF Len(t1) < Len(t2) THEN "Greater"
  ELSE trigger_priority_loop(t1, t2, Len(t1))

mapping_priority(m1, m2) == trigger_priority(m1.from, m2.from)

\* slice::sort_by on a short slice is a stable insertion sort: each element
\* in turn is shifted left while the comparator answers Less against its
\* left neighbour.
RECURSIVE insert_tail(_, _)
insert_tail(v, i) ==
  IF i > 1 /\ mapping_priority(v[i], v[i - 1]) = "Less"
  THEN insert_tail([v EXCEPT ![i - 1] = v[i], ![i] = v[i - 1]], i - 1)
  ELSE v

RECURSIVE sort_by_loop(_, _)
sort_by_loop(v, i) ==
  IF i > Len(v) THEN v ELSE sort_by_loop(insert_tail(v, i), i + 1)

sort_by(v) == sort_by_loop(v, 2)

has_duplicate(s) == \E i, j \in 1..Len(s) : i < j /\ s[i] = s[j]

\* the validation loop of make_hashed_layout
validation_panics(layout) ==
  \E n \in 1..Len(layout.mappings) :
     \/ has_duplicate(layout.mappings[n].from)
     \/ has_duplicate(layout.mappings[n].to)

\* the bucket-building loop of make_hashed_layout; None is the empty bucket
RECURSIVE hash_loop(_, _, _)
hash_loop(ms, n, mappings) ==
  IF n > Len(ms) THEN mappings
  ELSE LET last == final_key(ms[n].from)
           seq_mapping == to_seq_mapping(ms[n])
       IN hash_loop(ms, n + 1,
            [mappings EXCEPT ![last] =
               IF mappings[last] = << >>
               THEN << seq_mapping >>
               ELSE sort_by(Append(mappings[last], seq_mapping))])

make_hashed_layout_panics(layout) ==
  \/ validation_panics(layout)
  \/ \E n \in 1..Len(layout.mappings) : final_key_panics(layout.mappings[n].from)

make_hashed_layout(layout) ==
  [mappings       |-> hash_loop(layout.mappings, 1, [k \in Keys |-> << >>]),
   no_repeat_keys |-> layout.no_repeat_keys]

\* ------------------------------------------------------------ normal firing
\* the retain closure keeping the keys it hands to mapped_output_keys
displace_pass_through_keeping(state, m) ==
  LET overlaps(k) == Contains(m.from, k) \/ Contains(m.to, k)
  IN [state |-> [state EXCEPT
                   !.pass_through_keys =
                      SelectSeq(state.pass_through_keys,
                                LAMBDA k : ~overlaps(k) \/ Contains(m.to, k)),
                   !.mapped_output_keys =
                      state.mapped_output_keys
                      \o SelectSeq(state.pass_through_keys,
                                   LAMBDA k : overlaps(k) /\ Contains(m.to, k))],
      res   |-> ReleasedAll(SelectSeq(state.pass_through_keys,
                                      LAMBDA k : overlaps(k) /\ ~Contains(m.to, k)))]

\* the retain closure releasing every pass-through key that is not in m.to
displace_pass_through_all(state, m) ==
  [state |-> [state EXCEPT
                !.pass_through_keys = << >>,
                !.mapped_output_keys =
                   state.mapped_output_keys
                   \o SelectSeq(state.pass_through_keys,
                                LAMBDA k : Contains(m.to, k))],
   res   |-> ReleasedAll(SelectSeq(state.pass_through_keys,
                                   LAMBDA k : ~Contains(m.to, k)))]

\* the retain closure over pass_through_keys at the top of add_new_mapping:
\* a key of m.from alone is released, a key of m.to moves to
\* mapped_output_keys
displace_pass_through(state, m) ==
  LET overlaps(k) == Contains(m.from, k) \/ Contains(m.to, k)
  IN [state |-> [state EXCEPT
                   !.pass_through_keys =
                      SelectSeq(state.pass_through_keys, LAMBDA k : ~overlaps(k)),
                   !.mapped_output_keys =
                      state.mapped_output_keys
                      \o SelectSeq(state.pass_through_keys,
                                   LAMBDA k : overlaps(k) /\ Contains(m.to, k))],
      res   |-> ReleasedAll(SelectSeq(state.pass_through_keys,
                                      LAMBDA k : overlaps(k) /\ ~Contains(m.to, k)))]

\* step B gathering nothing
modifiers_to_release_nothing(state, j) == << >>

\* the modifiers_to_release gather: every non-final key of every active
\* action mapping that is in mapped_output_keys, one entry per mapping
RECURSIVE modifiers_to_release(_, _)
modifiers_to_release(state, j) ==
  IF j > Len(state.active_mappings) THEN << >>
  ELSE LET em == state.active_mappings[j]
       IN (IF is_action_mapping(em)
           THEN SelectSeq(SubSeq(em.to, 1, Len(em.to) - 1),
                          LAMBDA mod_key :
                            Contains(state.mapped_output_keys, mod_key))
           ELSE << >>)
          \o modifiers_to_release(state, j + 1)

\* the Released events for modifiers_to_release without the retain
drop_modifiers_keeping(a, mods) ==
  [state |-> a.state, res |-> a.res \o ReleasedAll(mods)]

\* the Released events for modifiers_to_release and the retain that drops
\* them from mapped_output_keys; a carries the state and the events so far
drop_modifiers(a, mods) ==
  [state |-> [a.state EXCEPT !.mapped_output_keys =
                 SelectSeq(a.state.mapped_output_keys,
                           LAMBDA k : ~Contains(mods, k))],
   res   |-> a.res \o ReleasedAll(mods)]

release_modifiers(a) == drop_modifiers(a, modifiers_to_release(a.state, 1))

\* the loop over m.to of add_new_mapping
RECURSIVE press_new_keys(_, _, _)
press_new_keys(b, to, n) ==
  IF n > Len(to) THEN b
  ELSE IF Contains(b.state.mapped_output_keys, to[n])
       THEN press_new_keys(
              [b EXCEPT !.res = @ \o << Released(to[n]), Pressed(to[n]) >>],
              to, n + 1)
       ELSE IF Contains(b.state.pass_through_keys, to[n])
       THEN press_new_keys(
              [state |-> [b.state EXCEPT
                            !.pass_through_keys =
                               SelectSeq(@, LAMBDA k2 : k2 # to[n]),
                            !.mapped_output_keys = Append(@, to[n])],
               res   |-> b.res \o << Released(to[n]), Pressed(to[n]) >>],
              to, n + 1)
       ELSE press_new_keys(
              [state |-> [b.state EXCEPT !.mapped_output_keys = Append(@, to[n])],
               res   |-> Append(b.res, Pressed(to[n]))],
              to, n + 1)

\* state.active_mappings.push(m.clone())
push_active(c, m) ==
  [c EXCEPT !.state.active_mappings = Append(@, m)]

\* add_new_mapping without the push to active_mappings
add_new_mapping_unrecorded(state, m) ==
  press_new_keys(release_modifiers(displace_pass_through(state, m)), m.to, 1)

add_new_mapping(state, m) ==
  push_active(
    press_new_keys(release_modifiers(displace_pass_through(state, m)), m.to, 1),
    m)

\* ---------------------------------------------------------- no-repeat firing
\* the keys of m.to that are in neither output class
relevant_codes(state, m) ==
  SelectSeq(m.to, LAMBDA k :
    ~(Contains(state.pass_through_keys, k)
      \/ Contains(state.mapped_output_keys, k)))

\* the no-repeat routine releasing in press order
apply_no_repeat_mapping_forward(state, m) ==
  [state |-> state,
   res   |-> PressedAll(relevant_codes(state, m))
             \o ReleasedAll(relevant_codes(state, m))]

apply_no_repeat_mapping(state, m) ==
  [state |-> state,
   res   |-> PressedAll(relevant_codes(state, m))
             \o ReleasedAll(Reverse(relevant_codes(state, m)))]

\* -------------------------------------------------------------- press handler
\* res.append of a fired group's events; the firing is also put on record
record_firing(acc, active_mapping, r) ==
  [acc EXCEPT
     !.state = r.state,
     !.res = @ \o r.res,
     !.firings = Append(@, [m         |-> active_mapping,
                            before    |-> acc.state,
                            after     |-> r.state,
                            res       |-> r.res])]

\* the body of the `for to in &mapping.to` loop of newly_press
fire_group(no_repeat_keys, acc, active_mapping) ==
  record_firing(acc, active_mapping,
    IF is_no_repeat_mapping(no_repeat_keys, active_mapping)
    THEN apply_no_repeat_mapping(acc.state, active_mapping)
    ELSE add_new_mapping(acc.state, active_mapping))

\* the `for to in &mapping.to` loop of newly_press; acc carries the state,
\* the events so far and one record per fired group
RECURSIVE fire_groups(_, _, _, _)
fire_groups(no_repeat_keys, mapping, g, acc) ==
  IF g > Len(mapping.to) THEN acc
  ELSE fire_groups(no_repeat_keys, mapping, g + 1,
         fire_group(no_repeat_keys, acc,
                    [from |-> mapping.from, to |-> mapping.to[g]]))

\* the mapping loop without its break
RECURSIVE search_mappings_no_break(_, _, _, _, _)
search_mappings_no_break(no_repeat_keys, bucket, n, k, acc) ==
  IF n > Len(bucket) THEN acc
  ELSE IF is_supported(bucket[n].from, acc.state.input_pressed_keys, k)
       THEN search_mappings_no_break(no_repeat_keys, bucket, n + 1, k,
              fire_groups(no_repeat_keys, bucket[n], 1,
                          [acc EXCEPT !.hits = Append(@, bucket[n])]))
       ELSE search_mappings_no_break(no_repeat_keys, bucket, n + 1, k, acc)

\* the `for mapping in mappings` loop of newly_press with its break
RECURSIVE search_mappings(_, _, _, _, _)
search_mappings(no_repeat_keys, bucket, n, k, acc) ==
  IF n > Len(bucket) THEN acc
  ELSE IF is_supported(bucket[n].from, acc.state.input_pressed_keys, k)
       THEN fire_groups(no_repeat_keys, bucket[n], 1,
                        [acc EXCEPT !.hits = Append(@, bucket[n])])
       ELSE search_mappings(no_repeat_keys, bucket, n + 1, k, acc)

\* the scan of active_mappings when no mapping fired
is_shadowed(state, k) ==
  \E j \in 1..Len(state.active_mappings) :
     \/ Contains(state.active_mappings[j].from, k)
     \/ Contains(state.active_mappings[j].to, k)

\* the fallback with any_hit set only when a group fired
pass_through_fallback_unless_fired(no_repeat_keys, fired, k) ==
  IF /\ ~(Len(fired.firings) > 0 \/ is_shadowed(fired.state, k))
     /\ ~Contains(fired.state.pass_through_keys, k)
  THEN IF k \in no_repeat_keys
       THEN [fired EXCEPT !.res = @ \o << Pressed(k), Released(k) >>]
       ELSE [fired EXCEPT !.res = Append(@, Pressed(k)),
                          !.state.pass_through_keys = Append(@, k)]
  ELSE fired

\* the two `if !any_hit` blocks of newly_press
pass_through_fallback(no_repeat_keys, fired, k) ==
  IF /\ ~(Len(fired.hits) > 0 \/ is_shadowed(fired.state, k))
     /\ ~Contains(fired.state.pass_through_keys, k)
  THEN IF k \in no_repeat_keys
       THEN [fired EXCEPT !.res = @ \o << Pressed(k), Released(k) >>]
       ELSE [fired EXCEPT !.res = Append(@, Pressed(k)),
                          !.state.pass_through_keys = Append(@, k)]
  ELSE fired

\* the pressed key put in front
push_input_front(passed, k) ==
  [passed EXCEPT !.state.input_pressed_keys = << k >> \o @]

\* state.input_pressed_keys.push(k)
push_input(passed, k) ==
  [passed EXCEPT !.state.input_pressed_keys = Append(@, k)]

newly_press(mapper, k) ==
  push_input(
    pass_through_fallback(
      mapper.layout.no_repeat_keys,
      search_mappings(mapper.layout.no_repeat_keys,
                      mapper.layout.mappings[k], 1, k,
                      [state |-> mapper.state, res |-> << >>,
                       firings |-> << >>, hits |-> << >>,
                       retractions |-> << >>]),
      k),
    k)

\* ------------------------------------------------------------ release handler
\* the loop of remove_mapping releasing a held key instead of handing it
\* back to pass_through_keys
RECURSIVE remove_mapping_loop_releasing(_, _, _, _, _)
remove_mapping_loop_releasing(state, i, removed_key, mapped_output_i, res) ==
  IF mapped_output_i < 1 THEN [state |-> state, res |-> res]
  ELSE LET k == state.mapped_output_keys[mapped_output_i]
           still_used ==
             \E j \in 1..Len(state.active_mappings) :
                j # i /\ Contains(state.active_mappings[j].to, k)
       IN IF still_used
          THEN remove_mapping_loop_releasing(state, i, removed_key,
                                             mapped_output_i - 1, res)
          ELSE remove_mapping_loop_releasing(
                 [state EXCEPT
                    !.mapped_output_keys = RemoveAt(@, mapped_output_i)],
                 i, removed_key, mapped_output_i - 1,
                 Append(res, Released(k)))

\* the loop of remove_mapping over mapped_output_keys, last to first
RECURSIVE remove_mapping_loop(_, _, _, _, _)
remove_mapping_loop(state, i, removed_key, mapped_output_i, res) ==
  IF mapped_output_i < 1 THEN [state |-> state, res |-> res]
  ELSE LET k == state.mapped_output_keys[mapped_output_i]
           others == {j \in 1..Len(state.active_mappings) : j # i}
           still_used ==
             \E j \in others : Contains(state.active_mappings[j].to, k)
           still_shadowed ==
             \E j \in others : Contains(state.active_mappings[j].from, k)
       IN IF still_used
          THEN remove_mapping_loop(state, i, removed_key, mapped_output_i - 1, res)
          ELSE IF Contains(state.input_pressed_keys, k) /\ k # removed_key
                  /\ ~still_shadowed
          THEN remove_mapping_loop(
                 [state EXCEPT
                    !.pass_through_keys = Append(@, k),
                    !.mapped_output_keys = RemoveAt(@, mapped_output_i)],
                 i, removed_key, mapped_output_i - 1, res)
          ELSE remove_mapping_loop(
                 [state EXCEPT
                    !.mapped_output_keys = RemoveAt(@, mapped_output_i)],
                 i, removed_key, mapped_output_i - 1,
                 Append(res, Released(k)))

\* active_mappings.remove(i)
drop_mapping(r, i) ==
  [r EXCEPT !.state.active_mappings = RemoveAt(@, i)]

remove_mapping(state, i, removed_key) ==
  drop_mapping(
    remove_mapping_loop(state, i, removed_key,
                        Len(state.mapped_output_keys), << >>),
    i)

\* res.append(&mut remove_mapping(..)); the retraction is also put on record
append_removed(a, i, r) ==
  [state       |-> r.state,
   res         |-> a.res \o r.res,
   retractions |-> Append(a.retractions,
                          [index  |-> i,
                           before |-> a.state,
                           after  |-> r.state,
                           res    |-> r.res])]

\* the walk over active_mappings from the first firing on
RECURSIVE retract_from_first(_, _, _)
retract_from_first(a, k, i) ==
  IF i > Len(a.state.active_mappings) THEN a
  ELSE IF fails_when_released(a.state.active_mappings[i].from, k)
       THEN retract_from_first(append_removed(a, i, remove_mapping(a.state, i, k)),
                               k, i)
       ELSE retract_from_first(a, k, i + 1)

retract_mappings_oldest_first(a, k, i) == retract_from_first(a, k, 1)

\* the while loop of newly_release, i from len-1 down to 0
RECURSIVE retract_mappings(_, _, _)
retract_mappings(a, k, i) ==
  IF i < 1 THEN a
  ELSE IF fails_when_released(a.state.active_mappings[i].from, k)
       THEN retract_mappings(append_removed(a, i, remove_mapping(a.state, i, k)),
                             k, i - 1)
       ELSE retract_mappings(a, k, i - 1)

\* the pass-through loop dropping the key without its Released event
release_pass_through_silent(a, k) ==
  [a EXCEPT !.state.pass_through_keys = SelectSeq(@, LAMBDA x : x # k)]

\* the pass-through loop of newly_release: the last occurrence goes
release_pass_through(a, k) ==
  LET at == {i \in 1..Len(a.state.pass_through_keys) :
               a.state.pass_through_keys[i] = k}
  IN IF at = {} THEN a
     ELSE [a EXCEPT !.state.pass_through_keys =
                       RemoveAt(@, CHOOSE x \in at : \A y \in at : y <= x),
                    !.res = Append(@, Released(k))]

\* state.input_pressed_keys.retain(|&old_key| old_key != k)
forget_input(b, k) ==
  [state   |-> [b.state EXCEPT !.input_pressed_keys =
                   SelectSeq(@, LAMBDA old_key : old_key # k)],
   res     |-> b.res,
   firings |-> << >>,
   hits    |-> << >>,
   retractions |-> b.retractions]

newly_release(mapper, k) ==
  forget_input(
    release_pass_through(
      retract_mappings([state |-> mapper.state, res |-> << >>,
                        retractions |-> << >>], k,
                       Len(mapper.state.active_mappings)),
      k),
    k)

\* ------------------------------------------------------------------ driver
\* the inputs on which step takes a `return vec![]` branch
is_redundant(mapper, input) ==
  IF input.type = "Pressed"
  THEN Contains(mapper.state.input_pressed_keys, input.key)
  ELSE ~Contains(mapper.state.input_pressed_keys, input.key)

no_effect(mapper) ==
  [state |-> mapper.state, res |-> << >>, firings |-> << >>, hits |-> << >>,
   retractions |-> << >>]

\* step without its already-pressed / not-pressed checks
step_unchecked(mapper, input) ==
  IF input.type = "Pressed"
  THEN newly_press(mapper, input.key)
  ELSE newly_release(mapper, input.key)

step(mapper, input) ==
  IF is_redundant(mapper, input) THEN no_effect(mapper)
  ELSE IF input.type = "Pressed"
       THEN newly_press(mapper, input.key)
       ELSE newly_release(mapper, input.key)

\* res.append(&mut chunk)
append_chunk(a, chunk) == [state |-> chunk.state, res |-> a.res \o chunk.res]

\* the loop of release_all over the snapshot to_release
RECURSIVE release_all_loop(_, _, _, _)
release_all_loop(hashed, to_release, n, a) ==
  IF n > Len(to_release) THEN a
  ELSE release_all_loop(hashed, to_release, n + 1,
         append_chunk(a, step([layout |-> hashed, state |-> a.state],
                              Released(to_release[n]))))

\* release_all starting one key late
release_all_skipping(mapper) ==
  release_all_loop(mapper.layout, mapper.state.input_pressed_keys, 2,
                   [state |-> mapper.state, res |-> << >>])

release_all(mapper) ==
  release_all_loop(mapper.layout, mapper.state.input_pressed_keys, 1,
                   [state |-> mapper.state, res |-> << >>])

\* ---------------------------------------------------------------- layouts
Mapping(from, to) == [from |-> from, to |-> to]

\* a list of mappings as declared and in the opposite declaration order
Orders(ms) == {ms, Reverse(ms)}

LayoutsOf(ms, no_repeat_sets) ==
  {[mappings |-> o, no_repeat_keys |-> nr] : o \in Orders(ms), nr \in no_repeat_sets}

\* The layouts handed to for_layout.  Codes 1 and 2 are modifiers, 3.. are
\* action keys.
\* one remap, as in test_single_key_remap / test_no_repeat
RemapLayouts ==
  LayoutsOf(<< Mapping(<<3>>, <<4>>) >>, {{}, {4, 5}})
\* test_double_keys: two groups, the second possibly no-repeat
DoubleKeyLayouts ==
  LayoutsOf(<< Mapping(<<3>>, <<4, 5>>) >>, {{}, {5}})
\* test_multi_key_overlap: two chords of one leader with a common output
OverlapLayouts ==
  LayoutsOf(<< Mapping(<<3>>, << >>), Mapping(<<3, 4>>, <<2, 5>>),
               Mapping(<<3, 1>>, <<5>>) >>, {{}})
\* a chord over a one-key remap of the same final key, as in test_super_multi
ChordLayouts ==
  LayoutsOf(<< Mapping(<<3>>, << >>), Mapping(<<4>>, <<5>>),
               Mapping(<<3, 4>>, <<2, 5>>) >>, {{}, {5}})
\* a two-group output sharing its modifier, next to a second remap
SharedModifierLayouts ==
  LayoutsOf(<< Mapping(<<3>>, <<2, 4, 5>>), Mapping(<<1>>, <<4>>) >>, {{}})
\* two equal-length triggers over the same keys
PermutedTriggerLayouts ==
  LayoutsOf(<< Mapping(<<3, 4, 5>>, <<1>>), Mapping(<<4, 3, 5>>, <<2>>) >>, {{}})
\* a chord whose output holds its own final key
SelfOutputLayouts ==
  LayoutsOf(<< Mapping(<<3, 4>>, <<2, 4>>) >>, {{}})
\* a key remapped to a modifier next to a modified action key
ModifierRemapLayouts ==
  LayoutsOf(<< Mapping(<<3>>, <<1>>), Mapping(<<4>>, <<2, 5>>) >>, {{}})
\* layouts with a repeated code or with an empty trigger
InvalidLayouts ==
  LayoutsOf(<< Mapping(<<3, 3>>, <<4>>) >>, {{}})
  \cup LayoutsOf(<< Mapping(<<3>>, <<4, 4>>) >>, {{}})
  \cup LayoutsOf(<< Mapping(<<3>>, <<4>>), Mapping(<<5>>, <<2, 4, 2>>) >>, {{}})
  \cup LayoutsOf(<< Mapping(<< >>, <<4>>) >>, {{}})

Layouts ==
  RemapLayouts \cup DoubleKeyLayouts \cup OverlapLayouts \cup ChordLayouts
  \cup SharedModifierLayouts \cup PermutedTriggerLayouts \cup SelfOutputLayouts
  \cup ModifierRemapLayouts
  \cup InvalidLayouts

Events == {Pressed(k) : k \in Keys} \cup {Released(k) : k \in Keys}

\* --------------------------------------------------------------- consumer
\* The virtual output device as the host sees it: which keys are down (the
\* key's most recent event is Pressed), Pressed minus Released per key, and
\* whether every event so far changed its key's position.
RECURSIVE consume(_, _, _)
consume(c, events, n) ==
  IF n > Len(events) THEN c
  ELSE LET e == events[n]
           p == e.type = "Pressed"
       IN consume([down |-> IF p THEN c.down \cup {e.key} ELSE c.down \ {e.key},
                   net  |-> [c.net EXCEPT ![e.key] = @ + (IF p THEN 1 ELSE -1)],
                   wellformed |-> c.wellformed /\ (p <=> e.key \notin c.down)],
                  events, n + 1)

\* ------------------------------------------------------------ state machine
VARIABLES
  given,      \* the Layout handed to for_layout
  status,     \* "new", "ready" (a Mapper was returned) or "panicked"
  layout,     \* Mapper.layout
  state,      \* Mapper.state
  call,       \* the last call made on the mapper, and for a step whether
              \* it took a `return vec![]` branch
  res,        \* the events that call returned
  firings,    \* one record per output group fired by that call
  hits,       \* the SeqMappings that fired in that call
  retractions, \* one record per active mapping retracted by that call
  consumer,   \* the output device after all events returned so far
  inputs_down, \* the keys the input so far has Pressed and not Released since,
              \* in the order of those presses
  reverted    \* keys: the keys remove_mapping pushed to pass_through_keys
              \* that are still there; released: the key of keys that the
              \* last call released

vars == << given, status, layout, state, call, res, firings, hits, retractions,
          consumer,
          inputs_down, reverted >>

mapper == [layout |-> layout, state |-> state]

Init ==
  /\ given \in Layouts
  /\ status = "new"
  /\ layout = [mappings |-> [k \in Keys |-> << >>], no_repeat_keys |-> {}]
  /\ state = init_state
  /\ call = [op |-> "none"]
  /\ res = << >>
  /\ firings = << >>
  /\ hits = << >>
  /\ retractions = << >>
  /\ consumer = [down |-> {}, net |-> [k \in Keys |-> 0], wellformed |-> TRUE]
  /\ inputs_down = << >>
  /\ reverted = [keys |-> {}, released |-> {}]

\* Mapper::for_layout
ForLayout ==
  /\ status = "new"
  /\ IF make_hashed_layout_panics(given)
     THEN /\ status' = "panicked"
          /\ UNCHANGED << layout, state >>
     ELSE /\ status' = "ready"
          /\ layout' = make_hashed_layout(given)
          /\ state' = init_state
  /\ call' = [op |-> "for_layout"]
  /\ UNCHANGED << given, res, firings, hits, retractions, consumer, inputs_down,
                  reverted >>

\* the host keeps calling while the bounds allow
WithinBounds ==
  \A k \in Keys : consumer.net[k] \in -MaxImbalance..MaxImbalance

\* the keys that pass_through_keys holds after a release and did not hold
\* before it: the pushes of remove_mapping
pushed_back(before, after, made) ==
  IF made.op = "step" /\ made.input.type = "Released"
  THEN {after.pass_through_keys[i] : i \in 1..Len(after.pass_through_keys)}
       \ {before.pass_through_keys[i] : i \in 1..Len(before.pass_through_keys)}
  ELSE {}

\* The input device as the host sees it: the keys whose latest input event
\* is Pressed, ordered by the first Pressed since their last Released.
RECURSIVE track(_, _, _)
track(h, inputs, n) ==
  IF n > Len(inputs) THEN h
  ELSE IF inputs[n].type = "Pressed"
       THEN track(IF Contains(h, inputs[n].key) THEN h ELSE Append(h, inputs[n].key),
                  inputs, n + 1)
       ELSE track(SelectSeq(h, LAMBDA x : x # inputs[n].key), inputs, n + 1)

\* the input events a call hands to step: its argument, or for release_all
\* one Released per key of the to_release snapshot
inputs_of(made) ==
  IF made.op = "step" THEN << made.input >>
  ELSE ReleasedAll(state.input_pressed_keys)

\* the mapper and the output device after a call that returned r
Returned(r, made) ==
  /\ inputs_down' = track(inputs_down, inputs_of(made), 1)
  /\ reverted' =
        [keys     |-> {k \in reverted.keys : Contains(r.state.pass_through_keys, k)}
                      \cup pushed_back(state, r.state, made),
         released |-> IF made.op = "step" /\ made.input.type = "Released"
                      THEN {made.input.key} \cap reverted.keys
                      ELSE {}]
  /\ state' = r.state
  /\ res' = r.res
  /\ firings' = r.firings
  /\ hits' = r.hits
  /\ retractions' = r.retractions
  /\ consumer' = consume(consumer, r.res, 1)
  /\ call' = made
  /\ UNCHANGED << given, status, layout >>

\* Mapper::step
Step ==
  /\ status = "ready"
  /\ WithinBounds
  /\ \E input \in Events :
       /\ Len(state.input_pressed_keys) = MaxHeld => is_redundant(mapper, input) \/ input.type = "Released"
       /\ Returned(step(mapper, input),
                   [op |-> "step", input |-> input,
                    redundant |-> is_redundant(mapper, input)])

\* no groups are recorded for release_all
without_firings(r) ==
  [state |-> r.state, res |-> r.res, firings |-> << >>, hits |-> << >>,
   retractions |-> << >>]

\* Mapper::release_all
ReleaseAll ==
  /\ status = "ready"
  /\ WithinBounds
  /\ Returned(without_firings(release_all(mapper)), [op |-> "release_all"])

Next == ForLayout \/ Step \/ ReleaseAll

Spec == Init /\ [][Next]_vars

\* ------------------------------------------------- compilation on its own
\* every duplicate-free output list of up to MaxToLen codes
DupFreeSeqs(n) ==
  {s \in UNION {[1..len -> Keys] : len \in 0..n} : ~has_duplicate(s)}

\* one mapping of key 3 for every such output list
CompileLayouts ==
  {[mappings |-> << Mapping(<<3>>, to) >>, no_repeat_keys |-> {}] :
     to \in DupFreeSeqs(MaxToLen)}

CompileInit ==
  /\ given \in CompileLayouts
  /\ status = "new"
  /\ layout = [mappings |-> [k \in Keys |-> << >>], no_repeat_keys |-> {}]
  /\ state = init_state
  /\ call = [op |-> "none"]
  /\ res = << >>
  /\ firings = << >>
  /\ hits = << >>
  /\ retractions = << >>
  /\ consumer = [down |-> {}, net |-> [k \in Keys |-> 0], wellformed |-> TRUE]
  /\ inputs_down = << >>
  /\ reverted = [keys |-> {}, released |-> {}]

CompileNext == ForLayout

CompileSpec == CompileInit /\ [][CompileNext]_vars

\* ------------------------------------------------------------------ claims
SeqToSet(s) == {s[i] : i \in 1..Len(s)}

IsPress == call.op = "step" /\ call.input.type = "Pressed" /\ ~call.redundant
IsRelease == call.op = "step" /\ call.input.type = "Released" /\ ~call.redundant

\* C1: when release_all has returned, every key has been emitted Pressed as
\* often as Released over the whole run.
C1_BalancedOutput ==
  call.op = "release_all" => \A k \in Keys : consumer.net[k] = 0

\* C2: when release_all has returned, the four sequences of State are empty
\* and no key is down at the consumer.
C2_ReleaseAllEmpties ==
  call.op = "release_all" =>
     /\ state.input_pressed_keys = << >>
     /\ state.active_mappings = << >>
     /\ state.pass_through_keys = << >>
     /\ state.mapped_output_keys = << >>
     /\ consumer.down = {}

\* release_all has just retracted a held chord and released a held key
C2_Witness ==
  /\ call.op = "release_all"
  /\ Len(res) >= 3
  /\ state = init_state
  /\ consumer.down = {}

\* the mappings of the given layout whose trigger ends in the key just
\* pressed and was supported at that press
SupportedAtPress ==
  {n \in 1..Len(given.mappings) :
     /\ final_key(given.mappings[n].from) = call.input.key
     /\ SeqToSet(given.mappings[n].from) \subseteq SeqToSet(state.input_pressed_keys)}

\* t1 is smaller than t2 element-wise from the last position backward
SmallerFromLast(t1, t2) ==
  \E i \in 1..Len(t1) :
     /\ t1[i] < t2[i]
     /\ \A j \in (i + 1)..Len(t1) : t1[j] = t2[j]

\* C3: of two supported mappings with equal-length triggers ending in the
\* pressed key, the one that fires has the smaller trigger compared from the
\* last position backward, whatever the declaration order.
C3_DeterministicPriority ==
  (IsPress /\ hits # << >>) =>
     \A n \in SupportedAtPress :
        LET t == given.mappings[n].from
        IN (Len(t) = Len(hits[1].from) /\ t # hits[1].from)
             => SmallerFromLast(hits[1].from, t)

\* C4: a fresh press of a key for which some mapping is supported fires
\* exactly one SeqMapping, and no supported mapping ending in that key has a
\* longer trigger.
C4_LongestSupportedFires ==
  (IsPress /\ SupportedAtPress # {}) =>
     /\ Len(hits) = 1
     /\ \E n \in SupportedAtPress : given.mappings[n].from = hits[1].from
     /\ \A n \in SupportedAtPress :
           Len(given.mappings[n].from) <= Len(hits[1].from)

\* a chord fired while a shorter mapping of the same final key was supported
C4_Witness ==
  /\ IsPress
  /\ Len(hits) = 1
  /\ \E n \in SupportedAtPress :
        Len(given.mappings[n].from) < Len(hits[1].from)

\* C5: a step with Pressed(k) for a held k, or Released(k) for a k not held,
\* returns no events and leaves the four sequences of State as they were.
C5_RedundantInputIdempotent ==
  [][\A k \in Keys :
       (/\ call'.op = "step"
        /\ \/ call'.input = Pressed(k) /\ Contains(state.input_pressed_keys, k)
           \/ call'.input = Released(k) /\ ~Contains(state.input_pressed_keys, k))
       => (res' = << >> /\ state' = state)]_vars

\* a redundant press arrived while a mapping was active and a key passed through
C5_Witness ==
  /\ call.op = "step"
  /\ call.redundant
  /\ call.input.type = "Pressed"
  /\ state.active_mappings # << >>
  /\ state.pass_through_keys # << >>
  /\ res = << >>

\* C6: no key is in both pass_through_keys and mapped_output_keys.
C6_DisjointOutputClasses ==
  SeqToSet(state.pass_through_keys) \cap SeqToSet(state.mapped_output_keys) = {}

\* a firing adopted a passed-through key as a mapped output
C6_Witness ==
  /\ IsPress
  /\ \E n \in 1..Len(firings) :
        \E k \in SeqToSet(firings[n].before.pass_through_keys) :
           Contains(firings[n].after.mapped_output_keys, k)
  /\ state.pass_through_keys # << >>

\* C7: every key of mapped_output_keys is in the to group of some mapping of
\* active_mappings.
C7_MappedKeysOwned ==
  \A k \in SeqToSet(state.mapped_output_keys) :
     \E j \in 1..Len(state.active_mappings) :
        Contains(state.active_mappings[j].to, k)

\* a release retracted one of several active mappings and outputs stay mapped
C7_Witness ==
  /\ IsRelease
  /\ Len(res) > 0
  /\ state.active_mappings # << >>
  /\ Len(state.mapped_output_keys) >= 2

\* C8: a key is down at the consumer exactly if it is in exactly one of
\* pass_through_keys and mapped_output_keys.
C8_DownIffHeldOutput ==
  \A k \in Keys :
     k \in consumer.down <=>
        (Contains(state.pass_through_keys, k)
           # Contains(state.mapped_output_keys, k))

\* keys of both classes are down after a release moved a key between them
C8_Witness ==
  /\ IsRelease
  /\ state.pass_through_keys # << >>
  /\ state.mapped_output_keys # << >>
  /\ consumer.down # {}

\* the events of a press/release palindrome over the keys of s
Palindrome(s) ==
  [i \in 1..(2 * Len(s)) |->
     IF i <= Len(s) THEN Pressed(s[i]) ELSE Released(s[2 * Len(s) + 1 - i])]

\* C9: a fired group whose last key is in no_repeat_keys emits Pressed for
\* each of its keys that is in neither output class, in group order, then
\* Released for the same keys in reverse order, and changes nothing in State.
C9_NoRepeatDiscipline ==
  \A n \in 1..Len(firings) :
     LET f == firings[n]
         held == SeqToSet(f.before.pass_through_keys)
                   \cup SeqToSet(f.before.mapped_output_keys)
         fresh == SelectSeq(f.m.to, LAMBDA x : x \notin held)
     IN f.m.to[Len(f.m.to)] \in layout.no_repeat_keys =>
          /\ f.res = Palindrome(fresh)
          /\ f.after = f.before

\* a no-repeat group of a modifier and an action key fired with both fresh
C9_Witness ==
  \E n \in 1..Len(firings) :
     /\ firings[n].m.to[Len(firings[n].m.to)] \in layout.no_repeat_keys
     /\ Len(firings[n].m.to) = 2
     /\ Len(firings[n].res) = 4

\* a no-repeat group fired while one of its keys was already down
C9_WitnessFiltered ==
  \E n \in 1..Len(firings) :
     /\ firings[n].m.to[Len(firings[n].m.to)] \in layout.no_repeat_keys
     /\ Len(firings[n].m.to) = 2
     /\ Len(firings[n].res) = 2

\* some mapping of the given layout repeats a code within from or within to
RepeatsCode ==
  \E n \in 1..Len(given.mappings) :
     \/ Cardinality(SeqToSet(given.mappings[n].from)) < Len(given.mappings[n].from)
     \/ Cardinality(SeqToSet(given.mappings[n].to)) < Len(given.mappings[n].to)

\* C10: for_layout fails exactly on a layout with a mapping that repeats a
\* code within from or within to, and otherwise returns a Mapper with empty
\* State.
C10_ForLayoutFailsOnlyOnDuplicates ==
  call.op = "for_layout" =>
     /\ status = "panicked" <=> RepeatsCode
     /\ status # "panicked" => (status = "ready" /\ state = init_state)

\* the positions of `to` that close a group: every non-final action key and
\* the final element
GroupEnds(to) ==
  SelectSeq([i \in 1..Len(to) |-> i],
            LAMBDA i : i = Len(to) \/ is_action_key(to[i]))

\* the modifier keys of s, in order
ModifiersOf(s) == SelectSeq(s, LAMBDA k : ~is_action_key(k))

\* one group per closing position: the modifiers before it, then its key
ExpectedGroups(to) ==
  [n \in 1..Len(GroupEnds(to)) |->
     Append(ModifiersOf(SubSeq(to, 1, GroupEnds(to)[n] - 1)),
            to[GroupEnds(to)[n]])]

\* C11: for a duplicate-free `to`, the compiled mapping holds, in order, one
\* group per non-final action key and one for the final element, each the
\* modifiers that precede its key followed by that key; an empty `to` gives
\* no group.
C11_OutputCompilation ==
  (status = "ready" /\ given \in CompileLayouts) =>
     /\ layout.mappings[3] =
           << [from |-> <<3>>, to |-> ExpectedGroups(given.mappings[1].to)] >>
     /\ (given.mappings[1].to = << >> => layout.mappings[3][1].to = << >>)

\* [LEFTSHIFT, K1, LEFTCTRL, LEFT] was compiled to two groups
C11_Witness ==
  /\ status = "ready"
  /\ given.mappings[1].to = <<2, 3, 1, 4>>
  /\ layout.mappings[3][1].to = << <<2, 3>>, <<2, 1, 4>> >>
\* how often event e occurs in events
Count(events, e) == Cardinality({n \in 1..Len(events) : events[n] = e})

\* C12: when the release of r retracts an active mapping, a key of
\* mapped_output_keys that no other active mapping has in its to or its from,
\* that is still held and is not r, goes to pass_through_keys and no
\* Released of it is returned; and the later release of a key that went to
\* pass_through_keys this way and stayed there returns exactly one Released
\* of it.
C12_ShadowOnRelease ==
  [][(call'.op = "step" /\ call'.input.type = "Released" /\ ~call'.redundant) =>
       LET r == call'.input.key
           am == state.active_mappings
       IN /\ \A i \in 1..Len(am) : \A k \in SeqToSet(state.mapped_output_keys) :
                (/\ fails_when_released(am[i].from, r)
                 /\ \A j \in 1..Len(am) :
                       j # i => ~Contains(am[j].to, k) /\ ~Contains(am[j].from, k)
                 /\ Contains(state.input_pressed_keys, k)
                 /\ k # r)
                => (/\ Contains(state'.pass_through_keys, k)
                    /\ ~Contains(state'.mapped_output_keys, k)
                    /\ Count(res', Released(k)) = 0
                    /\ k \in reverted'.keys)
          /\ r \in reverted.keys =>
                (/\ Count(res', Released(r)) = 1
                 /\ Count(res', Pressed(r)) = 0
                 /\ r \notin consumer'.down)]_vars

\* a key handed back to pass_through_keys by a retraction was released later
\* and one Released of it was returned
C12_Witness ==
  /\ IsRelease
  /\ call.input.key \in reverted.released
  /\ Count(res, Released(call.input.key)) = 1
\* C13: when a normal group ending in an action key has fired, the modifier
\* keys in mapped_output_keys at the press of its final key are exactly the
\* modifier keys of the group.
C13_ModifierResynthesis ==
  IsPress =>
     \A n \in 1..Len(firings) :
        (/\ ~is_no_repeat_mapping(layout.no_repeat_keys, firings[n].m)
         /\ is_action_mapping(firings[n].m))
        => SeqToSet(ModifiersOf(firings[n].after.mapped_output_keys))
             = SeqToSet(ModifiersOf(firings[n].m.to))
\* k is a non-final key of an action mapping of active_mappings
ResynthesizedBy(active_mappings, k) ==
  \E j \in 1..Len(active_mappings) :
     /\ is_action_mapping(active_mappings[j])
     /\ \E i \in 1..(Len(active_mappings[j].to) - 1) : active_mappings[j].to[i] = k

\* C13 as amended: when a normal group ending in an action key has fired, the
\* modifier keys in mapped_output_keys at the press of its final key are the
\* modifier keys of the group together with the modifier keys held before
\* that are not a non-final key of any active action mapping.
C13_ModifierResynthesisOfActionMappings ==
  IsPress =>
     \A n \in 1..Len(firings) :
        (/\ ~is_no_repeat_mapping(layout.no_repeat_keys, firings[n].m)
         /\ is_action_mapping(firings[n].m))
        => SeqToSet(ModifiersOf(firings[n].after.mapped_output_keys))
             = SeqToSet(ModifiersOf(firings[n].m.to))
               \cup {k \in SeqToSet(ModifiersOf(firings[n].before.mapped_output_keys)) :
                       ~ResynthesizedBy(firings[n].before.active_mappings, k)}

\* an action group fired over an active action mapping whose modifier it
\* does not share, and that modifier is no longer held
C13_Witness ==
  /\ IsPress
  /\ \E n \in 1..Len(firings) :
        /\ ~is_no_repeat_mapping(layout.no_repeat_keys, firings[n].m)
        /\ is_action_mapping(firings[n].m)
        /\ \E k \in SeqToSet(ModifiersOf(firings[n].before.mapped_output_keys)) :
              /\ ResynthesizedBy(firings[n].before.active_mappings, k)
              /\ ~Contains(firings[n].m.to, k)
              /\ ~Contains(firings[n].after.mapped_output_keys, k)
\* C14: a fresh press of k that chooses a mapping with an empty `to` returns
\* no events and changes State only by appending k to input_pressed_keys.
C14_EmptyOutputSuppression ==
  [][(/\ call'.op = "step"
      /\ call'.input.type = "Pressed"
      /\ ~call'.redundant
      /\ hits' # << >>
      /\ hits'[1].to = << >>)
     => (/\ res' = << >>
         /\ state' = [state EXCEPT
                         !.input_pressed_keys = Append(@, call'.input.key)])]_vars

\* a mapping with an empty `to` was chosen while another key passed through
C14_Witness ==
  /\ IsPress
  /\ hits # << >>
  /\ hits[1].to = << >>
  /\ state.pass_through_keys # << >>
  /\ ~Contains(state.pass_through_keys, call.input.key)
  /\ res = << >>
\* C15: input_pressed_keys has no duplicates and lists, in the order of
\* their presses, exactly the keys the input so far has Pressed and not
\* Released since.
C15_UniqueInputTracking ==
  /\ ~has_duplicate(state.input_pressed_keys)
  /\ state.input_pressed_keys = inputs_down

\* keys are held after a repeated press and after the release of another key
C15_Witness ==
  /\ call.op = "step"
  /\ call.redundant
  /\ call.input.type = "Pressed"
  /\ Len(inputs_down) = MaxHeld
  /\ inputs_down[1] > inputs_down[2]
  /\ consumer.net # [k \in Keys |-> 0]
  /\ state.input_pressed_keys = inputs_down
\* mapped_output_keys of a firing once the pass-through keys of its group
\* have been taken over
TakenOver(f) ==
  SeqToSet(f.before.mapped_output_keys)
  \cup (SeqToSet(f.before.pass_through_keys) \cap SeqToSet(f.m.to))

\* the non-final keys of the action mappings active before firing f that
\* are mapped outputs
Gathered(f) ==
  {x \in TakenOver(f) : ResynthesizedBy(f.before.active_mappings, x)}

\* the events for the keys of a group: Released then Pressed for a key of
\* kept, Pressed alone for any other
RECURSIVE GroupEvents(_, _, _)
GroupEvents(to, kept, n) ==
  IF n > Len(to) THEN << >>
  ELSE (IF to[n] \in kept THEN << Released(to[n]), Pressed(to[n]) >>
        ELSE << Pressed(to[n]) >>)
       \o GroupEvents(to, kept, n + 1)

\* the events firing f returned before those for the keys of its group
BeforeGroup(f) ==
  SubSeq(f.res, 1,
         Len(f.res) - Len(GroupEvents(f.m.to, TakenOver(f) \ Gathered(f), 1)))

\* C16: a normal group firing returns a Released for every non-final key of
\* each active action mapping that is a mapped output, drops these keys from
\* mapped_output_keys, returns all of these Released before any event for
\* the keys of the group, and returns Released then Pressed for a key of the
\* group that is still a mapped output.
C16_StepBOrdering ==
  IsPress =>
     \A n \in 1..Len(firings) :
        ~is_no_repeat_mapping(layout.no_repeat_keys, firings[n].m) =>
           LET f == firings[n]
               own == GroupEvents(f.m.to, TakenOver(f) \ Gathered(f), 1)
           IN /\ Len(f.res) >= Len(own)
              /\ SubSeq(f.res, Len(f.res) - Len(own) + 1, Len(f.res)) = own
              /\ \A x \in Gathered(f) :
                    /\ Count(BeforeGroup(f), Released(x)) >= 1
                    /\ ~Contains(f.m.to, x)
                          => ~Contains(f.after.mapped_output_keys, x)
              /\ \A i \in 1..Len(BeforeGroup(f)) :
                    BeforeGroup(f)[i].type = "Released"

\* a group fired over an active action mapping: its modifier was released
\* first, then the shared key was released and pressed again
C16_Witness ==
  /\ IsPress
  /\ \E n \in 1..Len(firings) :
        /\ ~is_no_repeat_mapping(layout.no_repeat_keys, firings[n].m)
        /\ \E x \in Gathered(firings[n]), k \in TakenOver(firings[n]) \ Gathered(firings[n]) :
              firings[n].res = << Released(x), Released(k), Pressed(k) >>
\* the events of the retractions ts, one retraction after the other
RECURSIVE RetractedEvents(_, _)
RetractedEvents(ts, n) ==
  IF n > Len(ts) THEN << >> ELSE ts[n].res \o RetractedEvents(ts, n + 1)

\* C17: the Released events of one retraction come in the reverse of the
\* order of their keys in mapped_output_keys, and a release that retracts
\* several active mappings retracts the one fired last first; the step
\* returns the events of its retractions in that order.
C17_ReverseReleaseOrder ==
  IsRelease =>
     /\ \A n \in 1..Len(retractions) :
           retractions[n].res =
              ReleasedAll(Reverse(SelectSeq(
                 retractions[n].before.mapped_output_keys,
                 LAMBDA k : Contains(retractions[n].res, Released(k)))))
     /\ \A n \in 1..(Len(retractions) - 1) :
           retractions[n].index > retractions[n + 1].index
     /\ Len(res) >= Len(RetractedEvents(retractions, 1))
     /\ SubSeq(res, 1, Len(RetractedEvents(retractions, 1)))
           = RetractedEvents(retractions, 1)

\* one release retracted two active mappings, the later one first, and the
\* earlier one gave up two keys, the later pressed first
C17_Witness ==
  /\ IsRelease
  /\ Len(retractions) = 2
  /\ retractions[1].index = 2
  /\ retractions[2].index = 1
  /\ \E x, y \in Keys :
        /\ retractions[2].before.mapped_output_keys = << x, y >>
        /\ retractions[2].res = << Released(y), Released(x) >>
\* the keys of s that are in neither the from nor the to of mapping m
Outside(s, m) ==
  SelectSeq(s, LAMBDA k : ~Contains(m.from, k) /\ ~Contains(m.to, k))

\* C18: a fired group returns no event for a key of pass_through_keys that
\* is in neither its from nor its to, and leaves these keys in
\* pass_through_keys in their order.
C18_PassThroughFrame ==
  \A n \in 1..Len(firings) :
     LET f == firings[n]
     IN /\ \A k \in SeqToSet(Outside(f.before.pass_through_keys, f.m)) :
              Count(f.res, Pressed(k)) + Count(f.res, Released(k)) = 0
        /\ Outside(f.after.pass_through_keys, f.m)
              = Outside(f.before.pass_through_keys, f.m)

\* a group fired and returned events while a key outside the mapping was
\* passed through; it is still passed through and down
C18_Witness ==
  /\ IsPress
  /\ \E n \in 1..Len(firings) :
        /\ Outside(firings[n].before.pass_through_keys, firings[n].m) # << >>
        /\ Len(firings[n].res) >= 2
        /\ Outside(state.pass_through_keys, firings[n].m) # << >>
        /\ SeqToSet(Outside(state.pass_through_keys, firings[n].m))
              \subseteq consumer.down
\* C19: every key of the from of every active mapping, and every key of
\* pass_through_keys, is in input_pressed_keys.
C19_HeldTriggers ==
  /\ \A j \in 1..Len(state.active_mappings) :
        SeqToSet(state.active_mappings[j].from)
           \subseteq SeqToSet(state.input_pressed_keys)
  /\ SeqToSet(state.pass_through_keys) \subseteq SeqToSet(state.input_pressed_keys)

\* a release retracted a chord while a shorter mapping stays active and a
\* key passes through
C19_Witness ==
  /\ IsRelease
  /\ Len(retractions) >= 1
  /\ state.active_mappings # << >>
  /\ state.pass_through_keys # << >>
  /\ Len(state.input_pressed_keys) >= 2
\* C20: over all calls so far, every returned Pressed(k) found k up at the
\* consumer and every returned Released(k) found k down.
C20_WellFormedOutput == consumer.wellformed
====
